---- MODULE Spec2Model ----
(***************************************************************************)
(* The bucket-based spaced-repetition scheduler of PS1/src/algorithm.ts.   *)
(*                                                                         *)
(* Flashcards are objects: a JavaScript Set<Flashcard> tests membership by *)
(* object identity (SameValueZero), so a card is modelled by its identity  *)
(* (a number of Cards) and its fields are a function of it.  Set objects   *)
(* are heap cells named by a reference, so that two holders of the same    *)
(* Set object (the BucketMap and the array toBucketSets returns) see each  *)
(* other's changes.  A Map iterates in insertion order: the BucketMap is   *)
(* the sequence of its keys in insertion order, key k holding the Set      *)
(* object MapRef(k).                                                       *)
(***************************************************************************)
EXTENDS Integers, Sequences, FiniteSets, TLC

VARIABLES
    buckets,   \* the BucketMap: its keys, in insertion order
    heap,      \* the contents of every Set object, by reference
    arr,       \* the Array<Set<Flashcard>> the caller holds (index i at arr[i+1])
    result,    \* the Set practice() returned last, by reference (or NoRef)
    ret,       \* the value the last call returned: {} for undefined, {v} for v
    last,      \* the last call: its name and arguments
    easy       \* the caller's practice history, per card: the Easy outcomes
               \* recorded since the card's last Wrong outcome

vars == <<buckets, heap, arr, result, ret, last, easy>>

----------------------------------------------------------------------------
(* Bounds of the model *)

NumCards == 2      \* flashcard objects update is called with
MaxBucket == 3     \* greatest bucket index update may create
MaxInitKeys == 2   \* keys of the BucketMap the caller starts with
MaxLen == 3        \* length of an array the caller builds itself
MaxPureKeys == 3   \* keys of a BucketMap given to toBucketSets, computeProgress
NumPureCards == 3  \* flashcard objects in such a BucketMap
MaxShareKeys == 2  \* keys of the BucketMap whose Sets an array shares

Cards == 1..NumCards
Keys == 0..MaxBucket
Days == (0 - 1)..(MaxBucket + 1)
Difficulty == {"Wrong", "Hard", "Easy"}

\* createFlashcard(front, back): objects 1 and 2 are created with the same
\* fields, as the tests create "Q1"/"A1" twice; 3 and 4 likewise, and so on.
fieldsOf(c) == (c + 1) \div 2

----------------------------------------------------------------------------
(* The heap of Set objects *)

MapRef(k) == <<"map", k>>      \* the Set stored in the BucketMap under key k
FreshRef(i) == <<"arr", i>>    \* a Set made for index i of an array
ResultRef == <<"res", 0>>      \* the Set practice() makes
NoRef == <<"none", 0>>

Refs == {MapRef(k) : k \in Keys}
        \cup {FreshRef(i) : i \in 0..(MaxBucket + 1)}
        \cup {ResultRef}

Range(s) == {s[i] : i \in 1..Len(s)}

Max(S) == CHOOSE x \in S : \A y \in S : y <= x
Min(S) == CHOOSE x \in S : \A y \in S : x <= y

\* buckets.has(k)
Has(M, k) == k \in Range(M)

\* The keys of M whose Set holds card, seen through heap h.
Holders(M, h, card) == {k \in Range(M) : card \in h[MapRef(k)]}

----------------------------------------------------------------------------
(* update(buckets, card, difficulty) *)

\* Faulty variant: the loop takes the lowest key whose Set has the card.
FindBucket_LowestKey(M, h, card) ==
    LET hits == {k \in Range(M) : card \in h[MapRef(k)]}
    IN  IF hits = {} THEN {} ELSE {Min(hits)}

\* The for-loop over the Map's entries: the key of the first entry, in
\* insertion order, whose Set has the card; undefined ({}) when none has it.
FindBucket(M, h, card) ==
    LET hits == {i \in 1..Len(M) : card \in h[MapRef(M[i])]}
    IN  IF hits = {} THEN {} ELSE {M[Min(hits)]}

\* Faulty variant: the card is not deleted from the bucket it was found in.
DeleteFound_Skipped(M, h, card) == h

\* cards.delete(card) on the entry the loop stopped at.
DeleteFound(M, h, card) ==
    LET found == FindBucket(M, h, card)
    IN  IF found = {} THEN h
        ELSE LET k == CHOOSE x \in found : TRUE
             IN  [h EXCEPT ![MapRef(k)] = @ \ {card}]

\* Faulty variant: a card found in no bucket is taken to be in bucket 1.
CurrentBucket_DefaultOne(M, h, card) ==
    LET hits == {i \in 1..Len(M) : card \in h[MapRef(M[i])]}
    IN  IF hits = {} THEN 1 ELSE M[Min(hits)]

\* if (currentBucket === undefined) currentBucket = 0
CurrentBucket(M, h, card) ==
    LET found == FindBucket(M, h, card)
    IN  IF found = {} THEN 0 ELSE CHOOSE x \in found : TRUE

\* Faulty variant: Wrong demotes the card by one bucket instead of resetting it.
NewBucket_WrongDemotes(currentBucket, difficulty) ==
    IF difficulty = "Wrong"
    THEN (IF currentBucket > 0 THEN currentBucket - 1 ELSE 0)
    ELSE IF difficulty = "Hard" THEN currentBucket
    ELSE currentBucket + 1

\* Faulty variant: Hard demotes the card by one bucket.
NewBucket_HardDemotes(currentBucket, difficulty) ==
    IF difficulty = "Wrong" THEN 0
    ELSE IF difficulty = "Hard"
         THEN (IF currentBucket > 0 THEN currentBucket - 1 ELSE 0)
    ELSE currentBucket + 1

NewBucket(currentBucket, difficulty) ==
    IF difficulty = "Wrong" THEN 0
    ELSE IF difficulty = "Hard" THEN currentBucket
    ELSE currentBucket + 1

\* if (!buckets.has(newBucket)) buckets.set(newBucket, new Set())
SetIfAbsent(M, k) == IF Has(M, k) THEN M ELSE Append(M, k)

NewSetIfAbsent(M, h, k) ==
    IF Has(M, k) THEN h ELSE [h EXCEPT ![MapRef(k)] = {}]

\* Faulty variant: the new bucket's Set is replaced by one holding the card.
AddCard_Replaces(h, k, card) == [h EXCEPT ![MapRef(k)] = {card}]

\* buckets.get(newBucket)?.add(card)
AddCard(h, k, card) == [h EXCEPT ![MapRef(k)] = @ \cup {card}]

Update(card, difficulty) ==
    LET currentBucket == CurrentBucket(buckets, heap, card)
        newBucket == NewBucket(currentBucket, difficulty)
        h1 == DeleteFound(buckets, heap, card)
        h2 == NewSetIfAbsent(buckets, h1, newBucket)
    IN  /\ newBucket <= MaxBucket
        /\ buckets' = SetIfAbsent(buckets, newBucket)
        /\ heap' = AddCard(h2, newBucket, card)
        /\ ret' = {}
        /\ last' = [op |-> "update", card |-> card,
                    difficulty |-> difficulty, day |-> 0]
        /\ UNCHANGED <<arr, result>>

----------------------------------------------------------------------------
(* toBucketSets(buckets) *)

\* Math.max(...buckets.keys(), 0)
MaxKey(M) == Max(Range(M) \cup {0})

\* Faulty variant: the loop that stores the Map's Sets in the array is left out.
BucketArray_AllFresh(M) ==
    [i \in 1..(MaxKey(M) + 1) |-> FreshRef(i - 1)]

\* The array after the loop: the Map's own Set at every key that is present,
\* and the new Set Array.from made at every other index.
BucketArray(M) ==
    [i \in 1..(MaxKey(M) + 1) |->
        IF Has(M, i - 1) THEN MapRef(i - 1) ELSE FreshRef(i - 1)]

\* Array.from({length}, () => new Set()): every Set it makes is empty.
\* The Sets of an array the caller held before are dropped with it.
FreshSets(h) ==
    [r \in Refs |-> IF r[1] = "arr" THEN {} ELSE h[r]]

\* Faulty variant: the array gets a copy of every Set of the Map.
ToBucketSets_Copies ==
    /\ arr' = [i \in 1..(MaxKey(buckets) + 1) |-> FreshRef(i - 1)]
    /\ heap' = [r \in Refs |->
                  IF r[1] = "arr"
                  THEN (IF Has(buckets, r[2]) THEN heap[MapRef(r[2])] ELSE {})
                  ELSE heap[r]]
    /\ ret' = {}
    /\ last' = [op |-> "toBucketSets", card |-> 0,
                difficulty |-> "none", day |-> 0]
    /\ UNCHANGED <<buckets, result, easy>>

ToBucketSets ==
    /\ arr' = BucketArray(buckets)
    /\ heap' = FreshSets(heap)
    /\ ret' = {}
    /\ last' = [op |-> "toBucketSets", card |-> 0,
                difficulty |-> "none", day |-> 0]
    /\ UNCHANGED <<buckets, result, easy>>

----------------------------------------------------------------------------
(* getBucketRange(buckets) *)

\* Faulty variant: minBucket is assigned at every non-empty index.
RangeStep_MinOverwritten(a, h, i, loc) ==
    IF h[a[i + 1]] # {} THEN <<{i}, {i}>> ELSE loc

\* One pass of the loop body at index i, on the pair of locals
\* <<minBucket, maxBucket>> (each {} while undefined).
RangeStep(a, h, i, loc) ==
    IF h[a[i + 1]] # {}
    THEN <<IF loc[1] = {} THEN {i} ELSE loc[1], {i}>>
    ELSE loc

RECURSIVE RangeLoop(_, _, _, _)
RangeLoop(a, h, i, loc) ==
    IF i < Len(a) THEN RangeLoop(a, h, i + 1, RangeStep(a, h, i, loc)) ELSE loc

GetBucketRangeOf(a, h) ==
    LET loc == RangeLoop(a, h, 0, <<{}, {}>>)
    IN  IF loc[1] # {} /\ loc[2] # {}
        THEN {[minBucket |-> CHOOSE x \in loc[1] : TRUE,
               maxBucket |-> CHOOSE x \in loc[2] : TRUE]}
        ELSE {}

GetBucketRange ==
    /\ ret' = GetBucketRangeOf(arr, heap)
    /\ last' = [op |-> "getBucketRange", card |-> 0,
                difficulty |-> "none", day |-> 0]
    /\ UNCHANGED <<buckets, heap, arr, result, easy>>

----------------------------------------------------------------------------
(* practice(buckets, day) *)

\* buckets[day]: undefined ({}) outside 0..length-1.
Element(a, day) == IF day \in 0..(Len(a) - 1) THEN {a[day + 1]} ELSE {}

\* Faulty variant: the bucket before day's is copied.
PracticeCards_OneBased(a, h, day) ==
    IF day \in 1..Len(a) THEN h[a[day]] ELSE {}

\* The contents of the new Set when practice returns.
PracticeCards(a, h, day) ==
    IF day < Len(a) /\ Element(a, day) # {}
    THEN h[CHOOSE r \in Element(a, day) : TRUE]
    ELSE {}

\* Faulty variant: practice returns the bucket's own Set.
PracticeResult_Aliased(a, day) ==
    IF day \in 0..(Len(a) - 1) THEN a[day + 1] ELSE ResultRef

\* The Set object practice returns.
PracticeResult(a, day) == ResultRef

Practice(day) ==
    /\ result' = PracticeResult(arr, day)
    /\ heap' = IF PracticeResult(arr, day) = ResultRef
               THEN [heap EXCEPT ![ResultRef] = PracticeCards(arr, heap, day)]
               ELSE heap
    /\ ret' = {}
    /\ last' = [op |-> "practice", card |-> 0,
                difficulty |-> "none", day |-> day]
    /\ UNCHANGED <<buckets, arr, easy>>

\* The caller adds a card to, or deletes one from, the Set practice returned.
CallerAdd(card) ==
    /\ result # NoRef
    /\ heap' = [heap EXCEPT ![result] = @ \cup {card}]
    /\ ret' = {}
    /\ last' = [op |-> "add", card |-> 0, difficulty |-> "none", day |-> 0]
    /\ UNCHANGED <<buckets, arr, result, easy>>

CallerDelete(card) ==
    /\ result # NoRef
    /\ heap' = [heap EXCEPT ![result] = @ \ {card}]
    /\ ret' = {}
    /\ last' = [op |-> "delete", card |-> 0, difficulty |-> "none", day |-> 0]
    /\ UNCHANGED <<buckets, arr, result, easy>>

----------------------------------------------------------------------------
(* computeProgress(buckets, history) *)

\* Faulty variant: bucket 3 does not count as mastered.
IsMastered_Above3(bucket) == bucket > 3

\* if (bucket >= 3)
IsMastered(bucket) == bucket >= 3

\* The loop over the Map's entries, from entry i on, on the pair of locals
\* <<totalCards, masteredCards>>.
RECURSIVE ProgressLoop(_, _, _, _)
ProgressLoop(M, h, i, loc) ==
    IF i > Len(M) THEN loc
    ELSE LET size == Cardinality(h[MapRef(M[i])])
         IN  ProgressLoop(M, h, i + 1,
                 <<loc[1] + size,
                   IF IsMastered(M[i]) THEN loc[2] + size ELSE loc[2]>>)

\* parseFloat(((masteredCards / totalCards) * 100).toFixed(2)), in hundredths:
\* toFixed(2) takes the integer n with n/100 nearest the number, the larger
\* one of two.  The quotient is computed exactly here; the double the code
\* computes rounds to the same hundredth for every total below 160 cards.
ToFixed2(masteredCards, totalCards) ==
    (20000 * masteredCards + totalCards) \div (2 * totalCards)

ComputeProgressOf(M, h) ==
    LET loc == ProgressLoop(M, h, 1, <<0, 0>>)
    IN  [totalCards |-> loc[1],
         masteredCards |-> loc[2],
         masteryPercentage |->
             IF loc[1] > 0 THEN ToFixed2(loc[2], loc[1]) ELSE 0]

ComputeProgress ==
    /\ ret' = {ComputeProgressOf(buckets, heap)}
    /\ last' = [op |-> "computeProgress", card |-> 0,
                difficulty |-> "none", day |-> 0]
    /\ UNCHANGED <<buckets, heap, arr, result, easy>>

----------------------------------------------------------------------------
(* The states a caller starts from *)

NoCall == [op |-> "none", card |-> 0, difficulty |-> "none", day |-> 0]

\* An empty practice history.
NoHistory == [c \in Cards |-> 0]

\* Sequences of distinct keys, as a Map holds them, of at most n keys.
KeySeqs(n) ==
    {M \in UNION {[1..m -> Keys] : m \in 0..n} :
        \A i, j \in 1..Len(M) : i # j => M[i] # M[j]}

\* The heap of a BucketMap M whose Set under key k holds member[k].
MapHeap(M, member) ==
    [r \in Refs |-> IF r[1] = "map" /\ r[2] \in Range(M) THEN member[r[2]] ELSE {}]

\* The heap of a BucketMap M in which card c is in bucket place[c] alone,
\* and in none when place[c] is no key of M.
PlacedHeap(M, place) ==
    MapHeap(M, [k \in Range(M) |-> {c \in DOMAIN place : place[c] = k}])

Absent == 0 - 1

\* A BucketMap that keeps the single-bucket invariant, and no array yet.
Init ==
    /\ buckets \in KeySeqs(MaxInitKeys)
    /\ \E place \in [Cards -> Range(buckets) \cup {Absent}] :
          heap = PlacedHeap(buckets, place)
    /\ arr = <<>>
    /\ result = NoRef
    /\ ret = {}
    /\ last = NoCall
    /\ easy = NoHistory

Next == \E c \in Cards, d \in Difficulty : Update(c, d) /\ UNCHANGED easy

Spec == Init /\ [][Next]_vars

\* The pure functions of a BucketMap, applied to every BucketMap of at most
\* MaxPureKeys keys that keeps the single-bucket invariant.
InitPure ==
    /\ buckets \in KeySeqs(MaxPureKeys)
    /\ \E place \in [1..NumPureCards -> Range(buckets) \cup {Absent}] :
          heap = PlacedHeap(buckets, place)
    /\ arr = <<>>
    /\ result = NoRef
    /\ ret = {}
    /\ last = NoCall
    /\ easy = NoHistory

NextPure ==
    \/ ToBucketSets
    \/ ComputeProgress

SpecPure == InitPure /\ [][NextPure]_vars

\* A fresh, empty BucketMap: the caller converts it, practises, changes the
\* Set it got back, and records outcomes, in any order.
InitShare ==
    /\ buckets = <<>>
    /\ heap = [r \in Refs |-> {}]
    /\ arr = <<>>
    /\ result = NoRef
    /\ ret = {}
    /\ last = NoCall
    /\ easy = NoHistory

NextShare ==
    \/ \E c \in Cards, d \in Difficulty :
          Update(c, d) /\ Len(buckets') <= MaxShareKeys /\ UNCHANGED easy
    \/ ToBucketSets
    \/ \E day \in Days : Practice(day)
    \/ \E c \in Cards : CallerAdd(c)
    \/ \E c \in Cards : CallerDelete(c)

SpecShare == InitShare /\ [][NextShare]_vars

\* An array of Sets the caller built itself, of any contents.
InitArray ==
    /\ buckets = <<>>
    /\ \E n \in 0..MaxLen :
          /\ arr = [i \in 1..n |-> FreshRef(i - 1)]
          /\ \E cards \in [0..(n - 1) -> SUBSET Cards] :
                heap = [r \in Refs |->
                          IF r[1] = "arr" /\ r[2] < n THEN cards[r[2]] ELSE {}]
    /\ result = NoRef
    /\ ret = {}
    /\ last = NoCall
    /\ easy = NoHistory

NextArray ==
    \/ GetBucketRange
    \/ \E day \in Days : Practice(day)

SpecArray == InitArray /\ [][NextArray]_vars

\* A BucketMap built outside update, in which a card may be in several buckets.
InitDup ==
    /\ buckets \in KeySeqs(MaxInitKeys)
    /\ \E member \in [Range(buckets) -> SUBSET Cards] :
          heap = MapHeap(buckets, member)
    /\ arr = <<>>
    /\ result = NoRef
    /\ ret = {}
    /\ last = NoCall
    /\ easy = NoHistory

\* One call of update on each such BucketMap.
NextDup ==
    \E c \in Cards, d \in Difficulty :
        last = NoCall /\ Update(c, d) /\ UNCHANGED easy

SpecDup == InitDup /\ [][NextDup]_vars

\* The caller appends {card, difficulty} to its practice history: Wrong
\* starts the card's count of Easy outcomes again, Easy adds one to it.
RecordOutcome(card, difficulty) ==
    easy' = [easy EXCEPT ![card] =
                IF difficulty = "Wrong" THEN 0
                ELSE IF difficulty = "Easy" THEN @ + 1
                ELSE @]

\* Every card in bucket 0 of a new BucketMap, and every answer recorded.
InitStreak ==
    /\ buckets = <<0>>
    /\ heap = MapHeap(buckets, [k \in {0} |-> Cards])
    /\ arr = <<>>
    /\ result = NoRef
    /\ ret = {}
    /\ last = NoCall
    /\ easy = NoHistory

NextStreak ==
    \E c \in Cards, d \in Difficulty : Update(c, d) /\ RecordOutcome(c, d)

SpecStreak == InitStreak /\ [][NextStreak]_vars

----------------------------------------------------------------------------
(* Properties of update *)

\* The bucket the Wrong/Hard/Easy rule gives a card of bucket k.
ExpectedBucket(k, d) ==
    CASE d = "Wrong" -> 0
      [] d = "Hard" -> k
      [] d = "Easy" -> k + 1

\* This step is a call update(buckets, last'.card, last'.difficulty).
IsUpdate == last'.op = "update"

\* C1: when card c is held by exactly one bucket k, update(M, c, d) leaves c
\* in bucket 0 for Wrong, k for Hard and k+1 for Easy, in no other bucket,
\* and that bucket is a key of the map afterwards.
C1_UpdateMovesCard ==
    [][IsUpdate =>
          LET c == last'.card
              d == last'.difficulty
          IN  \A k \in Keys :
                Holders(buckets, heap, c) = {k}
                => /\ Has(buckets', ExpectedBucket(k, d))
                   /\ Holders(buckets', heap', c) = {ExpectedBucket(k, d)}]_vars

\* An Easy answer has just moved a card of bucket 1 to bucket 2, a key that
\* update created.
C1_Witness ==
    /\ last.op = "update"
    /\ last.difficulty = "Easy"
    /\ Holders(buckets, heap, last.card) = {2}
    /\ Has(buckets, 1)
    /\ Len(buckets) > MaxInitKeys
    /\ buckets[Len(buckets)] = 2

\* C2: from a BucketMap in which every flashcard is in at most one bucket,
\* every sequence of update calls keeps every flashcard in at most one bucket.
C2_SingleBucket ==
    \A c \in Cards : Cardinality(Holders(buckets, heap, c)) <= 1

\* update has run on a map that now has more keys than it began with, with
\* every card placed and the two cards in different buckets.
C2_Witness ==
    /\ last.op = "update"
    /\ Len(buckets) > MaxInitKeys
    /\ \A c \in Cards : Cardinality(Holders(buckets, heap, c)) = 1
    /\ \E c1, c2 \in Cards :
          Holders(buckets, heap, c1) # Holders(buckets, heap, c2)

\* C3: update on a card that is in no bucket can always be made, and leaves
\* the card in bucket 0 for Wrong and Hard, bucket 1 for Easy, and only there.
C3_UnseenCard ==
    [][/\ \A c \in Cards, d \in Difficulty :
             Holders(buckets, heap, c) = {} => ENABLED Update(c, d)
       /\ (IsUpdate /\ Holders(buckets, heap, last'.card) = {})
             => Holders(buckets', heap', last'.card) =
                    {IF last'.difficulty = "Easy" THEN 1 ELSE 0}]_vars

\* An Easy answer for a card has put it in bucket 1 of a map that has no
\* bucket 0: the card was in no bucket before.
C3_Witness ==
    /\ last.op = "update"
    /\ last.difficulty = "Easy"
    /\ Holders(buckets, heap, last.card) = {1}
    /\ ~Has(buckets, 0)

\* The buckets of M that hold a card with fields f.
FieldBuckets(M, h, f) ==
    {k \in Range(M) : \E c \in h[MapRef(k)] : fieldsOf(c) = f}

\* C4: when bucket k alone holds a card with the fields of c2, and c2 is a
\* separately created object with those fields, update(M, c2, d) leaves a
\* card with those fields in exactly one bucket, the one the rule gives for k.
C4_ContentIdentity ==
    [][IsUpdate =>
          LET c2 == last'.card
              d == last'.difficulty
          IN  \A k \in Keys :
                (/\ Holders(buckets, heap, c2) = {}
                 /\ FieldBuckets(buckets, heap, fieldsOf(c2)) = {k})
                => FieldBuckets(buckets', heap', fieldsOf(c2)) =
                       {ExpectedBucket(k, d)}]_vars

----------------------------------------------------------------------------
(* Properties of toBucketSets, getBucketRange, practice, computeProgress *)

\* C5: toBucketSets(M) has length max(keys(M) + {0}) + 1, and its entry at
\* every index i is a set equal to M.get(i) when i is a key and empty otherwise.
C5_ToBucketSets ==
    last.op = "toBucketSets" =>
        /\ Len(arr) >= 1
        /\ \A k \in Range(buckets) : k < Len(arr)
        /\ Len(arr) = 1 \/ Has(buckets, Len(arr) - 1)
        /\ \A i \in 0..(Len(arr) - 1) :
              heap[arr[i + 1]] =
                  IF Has(buckets, i) THEN heap[MapRef(i)] ELSE {}

\* A map with cards in bucket 3 and no key 1 was converted: index 1 is a gap.
C5_Witness ==
    /\ last.op = "toBucketSets"
    /\ Len(arr) = 4
    /\ ~Has(buckets, 1)
    /\ heap[arr[4]] # {}
    /\ heap[arr[2]] = {}

\* The indices of array a whose Set is not empty.
NonEmpty(a, h) == {i \in 0..(Len(a) - 1) : h[a[i + 1]] # {}}

\* C6: getBucketRange(B) is undefined exactly when every set of B is empty,
\* and otherwise gives the least and the greatest index of a non-empty set.
C6_GetBucketRange ==
    last.op = "getBucketRange" =>
        LET ne == NonEmpty(arr, heap)
        IN  /\ (ret = {}) <=> (ne = {})
            /\ ne # {} =>
                  ret = {[minBucket |-> Min(ne), maxBucket |-> Max(ne)]}

\* Only bucket 0 of a longer array holds cards: the range is {0, 0}.
C6_Witness ==
    /\ last.op = "getBucketRange"
    /\ Len(arr) >= 2
    /\ ret = {[minBucket |-> 0, maxBucket |-> 0]}

\* C7: practice(B, day) returns a set equal to B[day] when 0 <= day < length
\* and the empty set otherwise.
C7_Practice ==
    last.op = "practice" =>
        heap[result] =
            IF 0 <= last.day /\ last.day < Len(arr)
            THEN heap[arr[last.day + 1]]
            ELSE {}

\* practice(B, 1) returned cards while bucket 0 holds a card it did not return.
C7_Witness ==
    /\ last.op = "practice"
    /\ last.day = 1
    /\ Len(arr) >= 2
    /\ heap[result] # {}
    /\ heap[arr[1]] \ heap[result] # {}

\* C8: practice returns a new Set object, none of B or of the map, and
\* changes no other Set; the caller's add or delete on the returned Set
\* changes no Set of B or of the map; update changes the returned Set not.
C8_PracticeNewSet ==
    [][/\ last'.op = "practice" =>
            /\ result' \notin Range(arr')
            /\ result' \notin {MapRef(k) : k \in Keys}
            /\ arr' = arr
            /\ buckets' = buckets
            /\ \A r \in Refs \ {result'} : heap'[r] = heap[r]
       /\ last'.op \in {"add", "delete"} =>
            \A r \in Range(arr) \cup {MapRef(k) : k \in Keys} :
                heap'[r] = heap[r]
       /\ (last'.op = "update" /\ result # NoRef) =>
            heap'[result] = heap[result]]_vars

\* A card practice returned has since been moved by update out of every
\* bucket the array shares with the map, and is still in the returned Set.
C8_Witness ==
    /\ last.op = "update"
    /\ result # NoRef
    /\ arr # <<>>
    /\ last.card \in heap[result]
    /\ \A i \in 1..Len(arr) : last.card \notin heap[arr[i]]
    /\ Holders(buckets, heap, last.card) # {}

\* The memberships of the map: a card counted once for every bucket it is in.
Memberships(M, h) ==
    {kc \in Range(M) \X (1..NumPureCards) : kc[2] \in h[MapRef(kc[1])]}

\* C9: computeProgress gives the sum of the bucket sizes, the sum over the
\* buckets of index >= 3, and their ratio in percent to the nearest
\* hundredth (masteryPercentage is held in hundredths), 0 for no cards.
C9_ComputeProgress ==
    last.op = "computeProgress" =>
        LET all == Memberships(buckets, heap)
            t == Cardinality(all)
            m == Cardinality({kc \in all : kc[1] >= 3})
        IN  /\ Cardinality(ret) = 1
            /\ \A r \in ret :
                  LET p == r.masteryPercentage
                  IN  /\ r.totalCards = t
                      /\ r.masteredCards = m
                      /\ t = 0 => p = 0
                      /\ t > 0 => /\ 2 * (p * t - 10000 * m) <= t
                                  /\ 2 * (10000 * m - p * t) <= t

\* Three cards, one of them in bucket 3 and one in bucket 2: 33.33 percent.
C9_Witness ==
    /\ last.op = "computeProgress"
    /\ heap[MapRef(2)] # {}
    /\ ret = {[totalCards |-> 3, masteredCards |-> 1,
               masteryPercentage |-> 3333]}

----------------------------------------------------------------------------
(* update on a map that breaks the single-bucket invariant *)

\* The first key, in insertion order, whose Set holds card.
FirstHolder(M, h, card) ==
    M[Min({i \in 1..Len(M) : card \in h[MapRef(M[i])]})]

\* C10: when card c is in two or more buckets, update(M, c, d) takes c out
\* of the first of them in insertion order only, and puts it in the bucket
\* the rule gives for that one; c stays in every other bucket that held it.
C10_FirstInInsertionOrder ==
    [][(IsUpdate /\ Cardinality(Holders(buckets, heap, last'.card)) >= 2)
          => LET c == last'.card
                 first == FirstHolder(buckets, heap, c)
             IN  Holders(buckets', heap', c) =
                     (Holders(buckets, heap, c) \ {first})
                         \cup {ExpectedBucket(first, last'.difficulty)}]_vars

\* Keys 2 and 0 were inserted in that order and both held the card; Easy took
\* it out of bucket 2, not out of the lower bucket 0, and made bucket 3.
C10_Witness ==
    /\ last.op = "update"
    /\ last.difficulty = "Easy"
    /\ buckets = <<2, 0, 3>>
    /\ Holders(buckets, heap, last.card) = {0, 3}

----------------------------------------------------------------------------
(* update against the practice history *)

\* Every card is in the one bucket whose index is the number of Easy outcomes
\* recorded for it since its last Wrong, every key is a natural number, and
\* the card is mastered exactly when that number is at least 3.
StreakIsBucket ==
    /\ \A k \in Range(buckets) : k \in Nat
    /\ \A c \in Cards :
          /\ Holders(buckets, heap, c) = {easy[c]}
          /\ (\E k \in Holders(buckets, heap, c) : IsMastered(k))
                <=> easy[c] >= 3

\* C11: from a BucketMap with every card in bucket 0, after every sequence of
\* update calls each card's bucket index is the number of Easy outcomes since
\* its last Wrong (Hard not counting), so it is a natural number, it is
\* mastered exactly from 3 such outcomes on, and no call raises an index by
\* more than 1.
C11_BucketIsEasyStreak ==
    [][/\ StreakIsBucket
       /\ StreakIsBucket'
       /\ \A c \in Cards :
             \A k \in Holders(buckets, heap, c) :
                \A k2 \in Holders(buckets', heap', c) : k2 <= k + 1]_vars

\* A Wrong answer has just sent a card back to bucket 0 while the other card,
\* with three Easy answers since its last Wrong, is in bucket 3.
C11_Witness ==
    /\ last.op = "update"
    /\ last.difficulty = "Wrong"
    /\ easy[last.card] = 0
    /\ Holders(buckets, heap, last.card) = {0}
    /\ Len(buckets) >= 4
    /\ \E c \in Cards :
          /\ c # last.card
          /\ easy[c] = 3
          /\ Holders(buckets, heap, c) = {3}

----------------------------------------------------------------------------
(* What update leaves alone *)

\* The number of cards of the map, a card counted once for each bucket it is in.
CardCount(M, h) ==
    Cardinality({kc \in Range(M) \X Cards : kc[2] \in h[MapRef(kc[1])]})

----------------------------------------------------------------------------
(* The Sets an array shares with the map *)

\* C13: toBucketSets(M) leaves M as it is and puts, at every key of M, the
\* Map's own Set object in the array; so after an update the array shows the
\* card at an index it shares with the map exactly when that bucket of the
\* map holds it, while the Set at an index whose key was not in the map is
\* left as it was and does not get a card put in a bucket update creates.
C13_ArraySharesSets ==
    [][/\ last'.op = "toBucketSets" =>
            /\ buckets' = buckets
            /\ \A k \in Keys : heap'[MapRef(k)] = heap[MapRef(k)]
            /\ \A k \in Range(buckets) : arr'[k + 1] = MapRef(k)
       /\ IsUpdate =>
            LET c == last'.card
            IN  /\ arr' = arr
                /\ \A i \in 0..(Len(arr) - 1) :
                      IF Has(buckets, i) /\ arr[i + 1] = MapRef(i)
                      THEN (c \in heap'[arr[i + 1]])
                              <=> (i \in Holders(buckets', heap', c))
                      ELSE heap'[arr[i + 1]] = heap[arr[i + 1]]
                /\ \A k \in Range(buckets') \ Range(buckets) :
                      k < Len(arr) => c \notin heap'[arr[k + 1]]]_vars

\* practice on the array, made before update created bucket day, returned no
\* card although bucket day of the map holds one.
C13_Witness ==
    /\ last.op = "practice"
    /\ 0 <= last.day
    /\ last.day < Len(arr)
    /\ Has(buckets, last.day)
    /\ heap[MapRef(last.day)] # {}
    /\ heap[result] = {}

====
